---- MODULE Spec2Model ----
(***************************************************************************)
(* State-machine model of the WhatsApp FAQ bot (MDastan2005/whatsapp_ai_bot)*)
(*                                                                         *)
(*   src/app/faq_manager.py     FAQManager: search_faq and the scorer,     *)
(*                              add / update / delete / load / save        *)
(*   src/app/bot.py             WhatsAppBot: handle_message and the router *)
(*   src/app/whatsapp_client.py transport collaborator                     *)
(*   src/app/openai_client.py   classifier / generator collaborator        *)
(*                                                                         *)
(* Python strings are sequences of one-character strings.  Scores are kept *)
(* in half units (3.0 -> 6, 2.0 -> 4, 1.0 -> 2, 0.5 -> 1) so that they are *)
(* integers; order and equality of scores are unchanged by the scaling.    *)
(***************************************************************************)
EXTENDS Integers, Sequences, FiniteSets, TLC

VARIABLES
    faq_data,       \* FAQManager.faq_data: the in-memory list of entries
    user_sessions,  \* WhatsAppBot.user_sessions: user -> session (or absent)
    greetings,      \* history: per user, how often the greeting branch ran
    last,           \* observation of the last handle_message call
    search,         \* observation of the last direct search_faq call
    scoring,        \* observation of the last direct scorer call / case comparison
    document,       \* the persisted JSON document at faq_file_path
    kb,             \* observation of the last knowledge-base operation
    write_failed,   \* history: a write of the document has failed since construction
    assigned,       \* history: the greatest id add_faq_item has assigned so far
    counted,        \* history: per user, the answers given from the knowledge base
    stats,          \* observation of the last get_bot_stats call
    tasks           \* the requests in flight on the server's threads

vars == <<faq_data, user_sessions, greetings, last, search, scoring, document, kb,
          write_failed, assigned, counted, stats, tasks>>

-----------------------------------------------------------------------------
(* Bounds of the model                                                     *)

MaxQueryLen == 3      \* longest query of the search specification
MaxFaq == 3           \* most entries of a knowledge base in SpecSearch
MaxResultsArg == 3    \* max_results ranges over -MaxResultsArg..MaxResultsArg
MaxMessageCount == 2  \* cap on a session's message_count

-----------------------------------------------------------------------------
(* Python str operations                                                   *)

\* the characters queries are drawn from ("B" is the upper-case "b")
Alphabet == {"a", "B", " "}

IsSpace(c) == c = " "

\* str.lower() on one character; "sz" stands for the one character U+00DF
\* (sharp s), which str.lower() leaves as it is
LowerChar(c) ==
    CASE c = "A" -> "a"
      [] c = "B" -> "b"
      [] c = "S" -> "s"
      [] OTHER -> c

\* str.upper() on one character: a string, since the upper case of U+00DF
\* is the two characters "SS"
UpperChar(c) ==
    CASE c = "a" -> <<"A">>
      [] c = "b" -> <<"B">>
      [] c = "s" -> <<"S">>
      [] c = "sz" -> <<"S", "S">>
      [] OTHER -> <<c>>

\* str.lower()
Lower(s) == [i \in 1..Len(s) |-> LowerChar(s[i])]

\* str.upper()
RECURSIVE Upper(_)
Upper(s) == IF s = <<>> THEN <<>> ELSE UpperChar(Head(s)) \o Upper(Tail(s))

\* the Python operator `sub in s` on strings
Contains(sub, s) ==
    \E i \in 0..(Len(s) - Len(sub)) : SubSeq(s, i + 1, i + Len(sub)) = sub

\* str.split(): the maximal runs of non-whitespace characters, in order
RECURSIVE SplitAcc(_, _, _)
SplitAcc(s, cur, acc) ==
    IF s = <<>>
    THEN IF cur = <<>> THEN acc ELSE Append(acc, cur)
    ELSE IF IsSpace(Head(s))
         THEN SplitAcc(Tail(s), <<>>, IF cur = <<>> THEN acc ELSE Append(acc, cur))
         ELSE SplitAcc(Tail(s), Append(cur, Head(s)), acc)

Split(s) == SplitAcc(s, <<>>, <<>>)

\* str.strip()
RECURSIVE LStrip(_)
LStrip(s) == IF s # <<>> /\ IsSpace(Head(s)) THEN LStrip(Tail(s)) ELSE s

RECURSIVE RStrip(_)
RStrip(s) ==
    IF s # <<>> /\ IsSpace(s[Len(s)]) THEN RStrip(SubSeq(s, 1, Len(s) - 1)) ELSE s

Strip(s) == RStrip(LStrip(s))

\* sum of f[i] over i in 1..n
RECURSIVE SumTo(_, _)
SumTo(f, n) == IF n = 0 THEN 0 ELSE f[n] + SumTo(f, n - 1)

\* the Python slice s[:n], negative n included
SliceTo(s, n) ==
    IF n >= 0
    THEN SubSeq(s, 1, IF n < Len(s) THEN n ELSE Len(s))
    ELSE SubSeq(s, 1, IF Len(s) + n > 0 THEN Len(s) + n ELSE 0)

-----------------------------------------------------------------------------
(* FAQManager._calculate_relevance_score (weights in half units)           *)

KeywordWeight == 6    \* score += 3.0
QuestionWeight == 4   \* score += 2.0
PartialWeight == 2    \* score += 1.0
AnswerWeight == 1     \* score += 0.5
MinWordLen == 2       \* len(word) > 2

\* a JSON null where the schema has a string: a value without .lower()
JsonNull == <<"null">>

\* the loop over faq_item['keywords']
KeywordScore(query, keywords) ==
    SumTo([i \in 1..Len(keywords) |->
              IF Contains(Lower(keywords[i]), query) THEN KeywordWeight ELSE 0],
          Len(keywords))

\* the same loop without the `len(word) > 2` test
QuestionWordScoreAnyLength(word, question) ==
    IF Contains(word, question)
    THEN QuestionWeight
    ELSE IF \E k \in 1..Len(Split(question)) : Contains(word, Split(question)[k])
         THEN PartialWeight
         ELSE 0

\* the first loop over query.split(): the question
QuestionWordScore(word, question) ==
    IF Len(word) > MinWordLen
    THEN IF Contains(word, question)
         THEN QuestionWeight
         ELSE IF \E k \in 1..Len(Split(question)) : Contains(word, Split(question)[k])
              THEN PartialWeight
              ELSE 0
    ELSE 0

\* the second loop over query.split(): the answer
AnswerWordScore(word, answer) ==
    IF Len(word) > MinWordLen /\ Contains(word, answer) THEN AnswerWeight ELSE 0

CalculateRelevanceScore(query, faq_item) ==
    LET words == Split(query)
        question == Lower(faq_item.question)
        answer == Lower(faq_item.answer)
    IN  KeywordScore(query, faq_item.keywords)
        + SumTo([i \in 1..Len(words) |-> QuestionWordScore(words[i], question)],
                Len(words))
        + SumTo([i \in 1..Len(words) |-> AnswerWordScore(words[i], answer)],
                Len(words))

\* question.lower() / answer.lower() raise AttributeError on a non-string
ScoreRaises(faq_item) ==
    faq_item.question = JsonNull \/ faq_item.answer = JsonNull

-----------------------------------------------------------------------------
(* FAQManager.search_faq                                                   *)

\* `if score > 0`
KeepsNonMatching(score) == score >= 0
IsRelevant(score) == score > 0

\* the loop that builds scored_results
RECURSIVE ScoredResults(_, _)
ScoredResults(query_lower, items) ==
    IF items = <<>>
    THEN <<>>
    ELSE LET score == CalculateRelevanceScore(query_lower, Head(items))
             rest == ScoredResults(query_lower, Tail(items))
         IN  IF IsRelevant(score)
             THEN <<[score |-> score, item |-> Head(items)]>> \o rest
             ELSE rest

\* list.sort(key=score, reverse=True) is stable: an element goes after every
\* element whose score is at least its own
RECURSIVE InsertDesc(_, _)
InsertDesc(sorted, x) ==
    IF sorted = <<>>
    THEN <<x>>
    ELSE IF Head(sorted).score >= x.score
         THEN <<Head(sorted)>> \o InsertDesc(Tail(sorted), x)
         ELSE <<x>> \o sorted

\* an unstable variant: an element goes before the elements with its score
RECURSIVE InsertDescFirst(_, _)
InsertDescFirst(sorted, x) ==
    IF sorted = <<>>
    THEN <<x>>
    ELSE IF Head(sorted).score > x.score
         THEN <<Head(sorted)>> \o InsertDescFirst(Tail(sorted), x)
         ELSE <<x>> \o sorted

RECURSIVE SortIntoFirst(_, _)
SortIntoFirst(done, todo) ==
    IF todo = <<>>
    THEN done
    ELSE SortIntoFirst(InsertDescFirst(done, Head(todo)), Tail(todo))

RECURSIVE SortInto(_, _)
SortInto(done, todo) ==
    IF todo = <<>> THEN done ELSE SortInto(InsertDesc(done, Head(todo)), Tail(todo))

SortUnstable(scored) == SortIntoFirst(<<>>, scored)
SortByScoreDesc(scored) == SortInto(<<>>, scored)

\* the ranked list before truncation
Ranked(items, query) == SortByScoreDesc(ScoredResults(Lower(query), items))

\* raises: the scorer fails on the first entry it cannot process
SearchRaises(items, query) ==
    /\ query # <<>>
    /\ \E i \in 1..Len(items) : ScoreRaises(items[i])

\* search_faq without the guard of its first statement
SearchFaqUnguarded(items, query, max_results) ==
    LET top == SliceTo(Ranked(items, query), max_results)
    IN  [i \in 1..Len(top) |-> top[i].item]

\* the returned list (when the call does not raise)
SearchFaq(items, query, max_results) ==
    IF query = <<>> \/ items = <<>>
    THEN <<>>
    ELSE LET top == SliceTo(Ranked(items, query), max_results)
         IN  [i \in 1..Len(top) |-> top[i].item]

-----------------------------------------------------------------------------
(* The persisted document and FAQManager.save_faq                          *)

\* the document json.load reads as an object whose "faq" member is faq
ObjectDoc(faq) == [kind |-> "object", faq |-> faq]

\* no file at faq_file_path: open() raises FileNotFoundError
MissingDoc == [kind |-> "missing", faq |-> <<>>]

\* a file json.load cannot parse (JSONDecodeError), e.g. a truncated one
UnparseableDoc == [kind |-> "unparseable", faq |-> <<>>]

\* a file holding JSON that is no object, e.g. `[]` or `5`: data.get raises
\* AttributeError
NotObjectDoc == [kind |-> "not_object", faq |-> <<>>]

\* a file holding a JSON object that has no "faq" member, e.g. `{}`
NoFaqDoc == [kind |-> "object_without_faq", faq |-> <<>>]

\* what a write of the document can come to: json.dump completes; open()
\* raises and the file stays as it was; open() has truncated the file and
\* json.dump raises before the text is complete
WriteOutcomes == {"written", "refused", "truncated"}

\* a write that leaves the file as it was and raises nothing
KeepsDocument(doc, faq, outcome) == doc

\* the file after open(path, 'w') and json.dump of {'faq': faq}
WriteDocument(doc, faq, outcome) ==
    CASE outcome = "written" -> ObjectDoc(faq)
      [] outcome = "refused" -> doc
      [] outcome = "truncated" -> UnparseableDoc

\* a save_faq that reports success whatever became of the write
SaveReportsSuccess(outcome) == TRUE

\* save_faq returns True when no exception was raised
SaveSucceeds(outcome) == outcome = "written"

\* the result of an operation: the collection, the document, the returned
\* bool, and whether the document was opened for writing
OpResult(faq, doc, result, wrote, outcome) ==
    [faq_data |-> faq, document |-> doc, result |-> result, wrote |-> wrote,
     outcome |-> outcome]

\* save_faq() as the last statement of an operation that changed faq to new_faq
SaveFaq(new_faq, doc, outcome) ==
    OpResult(new_faq, WriteDocument(doc, new_faq, outcome), SaveSucceeds(outcome),
             TRUE, outcome)

\* an early `return False`: nothing is written
Rejected(faq, doc) == OpResult(faq, doc, FALSE, FALSE, "none")

-----------------------------------------------------------------------------
(* FAQManager.add_faq_item / update_faq_item / delete_faq_item             *)

\* a keywords argument that is not a list
NotAList == <<"not_a_list">>

\* `not text or not isinstance(text, str) or len(text.strip()) == 0`;
\* JsonNull is also the Python None
IsBlank(text) == text = JsonNull \/ text = <<>> \/ Strip(text) = <<>>

\* an add_faq_item that checks the question only
IsBlankQuestionOnly(question, answer) == IsBlank(question)

\* the two validation statements of add_faq_item
IsInvalidItem(question, answer) == IsBlank(question) \/ IsBlank(answer)

\* [kw.strip() for kw in keywords if kw and isinstance(kw, str) and len(kw.strip()) > 0]
RECURSIVE NormalizeKeywords(_)
NormalizeKeywords(keywords) ==
    IF keywords = <<>>
    THEN <<>>
    ELSE IF IsBlank(Head(keywords))
         THEN NormalizeKeywords(Tail(keywords))
         ELSE <<Strip(Head(keywords))>> \o NormalizeKeywords(Tail(keywords))

\* max([item.get('id', 0) for item in self.faq_data], default=0)
RECURSIVE MaxIdOf(_)
MaxIdOf(items) ==
    IF items = <<>>
    THEN 0
    ELSE LET rest == MaxIdOf(Tail(items))
         IN  IF Head(items).id > rest THEN Head(items).id ELSE rest

\* an id assignment that counts the entries instead
LenPlusOne(items) == Len(items) + 1

\* new_id = max_id + 1
NewId(items) == MaxIdOf(items) + 1

NewItem(items, question, answer, keywords) ==
    [id |-> NewId(items), question |-> Strip(question), answer |-> Strip(answer),
     keywords |-> IF keywords = JsonNull THEN <<>> ELSE NormalizeKeywords(keywords)]

AddFaqItem(faq, doc, question, answer, keywords, outcome) ==
    IF IsInvalidItem(question, answer) \/ keywords = NotAList
    THEN Rejected(faq, doc)
    ELSE SaveFaq(Append(faq, NewItem(faq, question, answer, keywords)), doc, outcome)

\* the position of the first entry with the id, 0 when there is none
FirstWithId(items, faq_id) ==
    IF \E i \in 1..Len(items) : items[i].id = faq_id
    THEN CHOOSE i \in 1..Len(items) :
             /\ items[i].id = faq_id
             /\ \A j \in 1..(i - 1) : items[j].id # faq_id
    ELSE 0

\* an update that assigns all three fields, supplied or not
AssignAllFields(item, question, answer, keywords) ==
    [item EXCEPT !.question = question, !.answer = answer, !.keywords = keywords]

\* the three `if ... is not None` assignments
AssignSupplied(item, question, answer, keywords) ==
    [item EXCEPT !.question = IF question # JsonNull THEN question ELSE @,
                 !.answer = IF answer # JsonNull THEN answer ELSE @,
                 !.keywords = IF keywords # JsonNull THEN keywords ELSE @]

UpdateFaqItem(faq, doc, faq_id, question, answer, keywords, outcome) ==
    IF FirstWithId(faq, faq_id) = 0
    THEN Rejected(faq, doc)
    ELSE SaveFaq([faq EXCEPT ![FirstWithId(faq, faq_id)] =
                      AssignSupplied(@, question, answer, keywords)],
                 doc, outcome)

\* a removal that drops the first entry with the id and all that follow it
RECURSIVE CutAtId(_, _)
CutAtId(items, faq_id) ==
    IF items = <<>> \/ Head(items).id = faq_id
    THEN <<>>
    ELSE <<Head(items)>> \o CutAtId(Tail(items), faq_id)

\* [item for item in self.faq_data if item.get('id') != faq_id]
RECURSIVE WithoutId(_, _)
WithoutId(items, faq_id) ==
    IF items = <<>>
    THEN <<>>
    ELSE IF Head(items).id = faq_id
         THEN WithoutId(Tail(items), faq_id)
         ELSE <<Head(items)>> \o WithoutId(Tail(items), faq_id)

DeleteFaqItem(faq, doc, faq_id, outcome) ==
    IF Len(WithoutId(faq, faq_id)) < Len(faq)
    THEN SaveFaq(WithoutId(faq, faq_id), doc, outcome)
    ELSE Rejected(faq, doc)

-----------------------------------------------------------------------------
(* FAQManager.load_faq / _create_default_faq / reload_faq                  *)

DefaultFaqSize == 5

\* the number of keywords of the built-in entries
DefaultKeywordCount == <<4, 5, 5, 4, 5>>

\* the built-in entries; their texts are kept apart by the entry's number
DefaultFaq ==
    [i \in 1..DefaultFaqSize |->
        [id |-> i, question |-> <<"q", ToString(i)>>, answer |-> <<"a", ToString(i)>>,
         keywords |-> [j \in 1..DefaultKeywordCount[i] |->
                          <<"k", ToString(i), ToString(j)>>]]]

\* _create_default_faq: faq_data is assigned after the write, so only when
\* the write raised nothing; load_faq then returns False
CreateDefaultFaq(faq, doc, outcome) ==
    OpResult(IF outcome = "written" THEN DefaultFaq ELSE faq,
             WriteDocument(doc, DefaultFaq, outcome), FALSE, TRUE, outcome)

LoadFaq(faq, doc, outcome) ==
    CASE doc.kind = "object" -> OpResult(doc.faq, doc, TRUE, FALSE, "none")
      [] doc.kind = "object_without_faq" -> OpResult(<<>>, doc, TRUE, FALSE, "none")
      [] doc.kind = "missing" -> CreateDefaultFaq(faq, doc, outcome)
      [] OTHER -> Rejected(faq, doc)

-----------------------------------------------------------------------------
(* Collaborators of the router, each with the outcomes its code produces   *)

Users == {"u1", "u2"}

\* Python None where a text is expected
NoneValue == "<None>"

\* OpenAIClient.classify_intent: content.strip().lower(), any label; it
\* catches every exception and answers "other"
Intents == {"greeting", "question", "support", "order", "complaint", "other", "xyz"}

\* OpenAIClient.generate_greeting_response: content.strip() (empty when the
\* service answers with blanks) or the built-in greeting; it never raises
GreetingTexts == {"", "greeting_text"}

\* OpenAIClient.generate_faq_response: None on failure, else content.strip()
GeneratedAnswers == {NoneValue, "", "answer_text"}

\* the static templates of WhatsAppBot
FallbackResponse == "fallback_template"
GeneralHelpResponse == "general_help_template"
ErrorResponse == "error_template"

\* truth value of an Optional[str]
Truthy(text) == text # NoneValue /\ text # ""

-----------------------------------------------------------------------------
(* WhatsAppClient.extract_message_data                                     *)

\* message['text']['body'] as it arrives: absent, a string, or a non-string
NoBody == [kind |-> "none", val |-> <<>>]
IntBody == [kind |-> "int", val |-> <<>>]
StrBody(text) == [kind |-> "str", val |-> text]

\* the texts users send: one that matches the knowledge base, one that
\* matches nothing, a blank one and the empty text
MessageTexts == { <<"a", "B", "a">>, <<" ", "B">>, <<" ">>, <<>> }

Bodies == {NoBody, IntBody} \cup {StrBody(t) : t \in MessageTexts}

\* webhook payloads by shape; only a "message" payload carries a message
WebhookEvents ==
    { [shape |-> sh, from |-> "u1", type |-> "text", body |-> NoBody]
        : sh \in {"not_a_dict", "no_entry", "no_messages", "no_sender"} }
    \cup
    { [shape |-> "message", from |-> u, type |-> "image", body |-> NoBody]
        : u \in Users }
    \cup
    { [shape |-> "message", from |-> u, type |-> "text", body |-> b]
        : u \in Users, b \in Bodies }

NoMessageData == [ok |-> FALSE, from |-> "u1", type |-> "text", text |-> NoBody]

ExtractMessageData(webhook_data) ==
    IF webhook_data.shape # "message"
    THEN NoMessageData
    ELSE [ok |-> TRUE, from |-> webhook_data.from, type |-> webhook_data.type,
          text |-> IF webhook_data.type = "text" THEN webhook_data.body ELSE NoBody]

\* truth value of message_data['text']
TextTruthy(text) == text.kind = "int" \/ (text.kind = "str" /\ text.val # <<>>)

-----------------------------------------------------------------------------
(* WhatsAppBot: sessions and the router                                    *)

FaqMaxResults == 3
DefaultMaxResults == 2

NoSession == [present |-> FALSE, greeted |-> FALSE, message_count |-> 0, topics |-> <<>>]
NewSession == [present |-> TRUE, greeted |-> FALSE, message_count |-> 0, topics |-> <<>>]

\* a _get_user_session that stores a new session on every call
ResetsSession(sessions, user_phone) == [sessions EXCEPT ![user_phone] = NewSession]

\* _get_user_session: the session map after the call
GetUserSession(sessions, user_phone) ==
    IF sessions[user_phone].present
    THEN sessions
    ELSE [sessions EXCEPT ![user_phone] = NewSession]

\* an _update_user_stats that counts the message twice
UpdateUserStatsTwice(sessions, user_phone) ==
    LET created == GetUserSession(sessions, user_phone)
    IN  [created EXCEPT ![user_phone].message_count = @ + 2]

\* _update_user_stats
UpdateUserStats(sessions, user_phone) ==
    LET created == GetUserSession(sessions, user_phone)
    IN  [created EXCEPT ![user_phone].message_count = @ + 1]

\* `intent == 'greeting' and not user_session.get('greeted')`
IsAnyGreeting(intent, session) == intent = "greeting"
IsFirstGreeting(intent, session) == intent = "greeting" /\ ~session.greeted

\* `intent in ['question', 'support', 'order', 'complaint']`
IsFaqIntent(intent) == intent \in {"question", "support", "order", "complaint"}

\* the branch of the four FAQ intents, after the search returned
FaqBranchToHelp(relevant_faq, generated) ==
    IF relevant_faq # <<>> /\ Truthy(generated)
    THEN [response |-> generated, counted |-> TRUE]
    ELSE [response |-> GeneralHelpResponse, counted |-> FALSE]
FaqBranch(relevant_faq, generated) ==
    IF relevant_faq # <<>> /\ Truthy(generated)
    THEN [response |-> generated, counted |-> TRUE]
    ELSE [response |-> FallbackResponse, counted |-> FALSE]

\* the else branch, after the search returned
DefaultBranchToFallback(relevant_faq, generated) ==
    IF relevant_faq # <<>> /\ Truthy(generated)
    THEN [response |-> generated, counted |-> FALSE]
    ELSE [response |-> FallbackResponse, counted |-> FALSE]
DefaultBranch(relevant_faq, generated) ==
    IF relevant_faq # <<>> /\ Truthy(generated)
    THEN [response |-> generated, counted |-> FALSE]
    ELSE [response |-> GeneralHelpResponse, counted |-> FALSE]

\* the try/except of _process_user_message: what the caller receives
Uncaught == "<exception>"
RouterLetsEscape(raised, response) == IF raised THEN Uncaught ELSE response
RouterOutcome(raised, response) == IF raised THEN ErrorResponse ELSE response

\* _process_user_message up to the generator call: the session is created,
\* the intent selects the branch and the branch runs its search
RouteBranch(created, user_phone, intent, branch, max_results, raised, relevant_faq) ==
    [sessions |-> created, user_phone |-> user_phone, intent |-> intent,
     branch |-> branch, search_max |-> max_results, search_raised |-> raised,
     relevant_faq |-> relevant_faq]

RouteSearch(created, items, user_phone, message, intent, branch, max_results) ==
    IF SearchRaises(items, message)
    THEN RouteBranch(created, user_phone, intent, branch, max_results, TRUE, <<>>)
    ELSE RouteBranch(created, user_phone, intent, branch, max_results, FALSE,
                     SearchFaq(items, message, max_results))

RouteCreated(created, items, user_phone, message, intent) ==
    IF IsFirstGreeting(intent, created[user_phone])
    THEN RouteBranch(created, user_phone, intent, "greeting", 0, FALSE, <<>>)
    ELSE IF IsFaqIntent(intent)
         THEN RouteSearch(created, items, user_phone, message, intent,
                          "faq", FaqMaxResults)
         ELSE RouteSearch(created, items, user_phone, message, intent,
                          "default", DefaultMaxResults)

RouteMessage(sessions, items, user_phone, message, intent) ==
    RouteCreated(GetUserSession(sessions, user_phone), items, user_phone,
                 message, intent)

\* the rest of _process_user_message: the generator's answer, the session
\* update and the returned text
Outcome(r, sessions, generated, response, calls) ==
    [sessions |-> sessions, branch |-> r.branch, search_max |-> r.search_max,
     search_raised |-> r.search_raised, matches |-> Len(r.relevant_faq),
     generated |-> generated, response |-> response, calls |-> calls]

AnswerBranch(r, out, generated) ==
    Outcome(r,
            IF out.counted THEN UpdateUserStats(r.sessions, r.user_phone)
                           ELSE r.sessions,
            IF r.relevant_faq # <<>> THEN generated ELSE NoneValue,
            RouterOutcome(FALSE, out.response),
            IF r.relevant_faq # <<>> THEN <<"classify", "search", "generate">>
                                     ELSE <<"classify", "search">>)

AnswerMessage(r, greeting, generated) ==
    IF r.branch = "greeting"
    THEN Outcome(r, [r.sessions EXCEPT ![r.user_phone].greeted = TRUE],
                 greeting, RouterOutcome(FALSE, greeting), <<"classify", "greet">>)
    ELSE IF r.search_raised
         THEN Outcome(r, r.sessions, NoneValue, RouterOutcome(TRUE, NoneValue),
                      <<"classify", "search">>)
         ELSE IF r.branch = "faq"
              THEN AnswerBranch(r, FaqBranch(r.relevant_faq, generated), generated)
              ELSE AnswerBranch(r, DefaultBranch(r.relevant_faq, generated), generated)

\* _process_user_message on the classifier's and the generators' answers
ProcessUserMessage(sessions, items, user_phone, message, intent, greeting, generated) ==
    AnswerMessage(RouteMessage(sessions, items, user_phone, message, intent),
                  greeting, generated)

-----------------------------------------------------------------------------
(* WhatsAppBot.handle_message                                              *)

\* the two early returns: no message data, or not a non-empty text message
SkipsOnlyMissing(message_data) == ~message_data.ok \/ message_data.type # "text"
IsSkipped(message_data) ==
    \/ ~message_data.ok
    \/ message_data.type # "text"
    \/ ~TextTruthy(message_data.text)

\* message_data['text'].strip() raises on a value that is no string
StripRaises(message_data) == message_data.text.kind # "str"

\* `if response:` ... send_text_message ... return success
ReturnsTrueOnceSent(response, send_ok) == Truthy(response) /\ response # Uncaught
HandleResult(response, send_ok) ==
    Truthy(response) /\ response # Uncaught /\ send_ok

NoCall == [called |-> FALSE]
NoScoring == [kind |-> "none"]
NoOperation == [op |-> "none"]
NoSearch == [done |-> FALSE, query |-> <<>>, max_results |-> 0, result |-> <<>>]
NoStats == [called |-> FALSE]
NoTasks == <<>>

\* nothing was assigned, counted or asked for yet and no request is in flight
Unobserved ==
    /\ assigned = 0
    /\ counted = [u \in Users |-> 0]
    /\ stats = NoStats
    /\ tasks = NoTasks

\* the message was answered from the knowledge base in the branch of the four
\* FAQ intents: the search found entries and the generator gave a text
AnsweredFromFaq(p) ==
    p.branch = "faq" /\ ~p.search_raised /\ p.matches > 0 /\ Truthy(p.generated)

\* a handle_message call that replies nothing
Unanswered(webhook_data, calls) ==
    [called |-> TRUE, event |-> webhook_data, user |-> webhook_data.from,
     routed |-> FALSE, intent |-> "", greeted_before |-> FALSE,
     branch |-> "none", search_max |-> 0, search_raised |-> FALSE,
     matches |-> 0, generated |-> NoneValue, response |-> NoneValue,
     calls |-> calls, mark_ok |-> FALSE, send_ok |-> FALSE, result |-> FALSE]

\* a handle_message that sends a second time when the first send failed
SendRetried(sends, send_ok) ==
    IF sends THEN (IF send_ok THEN <<"send">> ELSE <<"send", "send">>) ELSE <<>>

\* line 64: mark_message_as_read is called once and its result is dropped
MarkReadCalls(mark_ok) == <<"mark_read">>

\* lines 69-78: `if response:` one send_text_message, whatever it answers
SendCalls(sends, send_ok) == IF sends THEN <<"send">> ELSE <<>>

\* the state after a handle_message call whose router call gave p
Replied(webhook_data, user_phone, intent, p, sends, send_ok, mark_ok) ==
    /\ p.sessions[user_phone].message_count <= MaxMessageCount
    /\ user_sessions' = p.sessions
    /\ greetings' = [greetings EXCEPT ![user_phone] =
                         IF p.branch = "greeting" THEN @ + 1 ELSE @]
    /\ counted' = [counted EXCEPT ![user_phone] =
                       IF AnsweredFromFaq(p) THEN @ + 1 ELSE @]
    /\ last' = [called |-> TRUE, event |-> webhook_data,
                user |-> user_phone, routed |-> TRUE, intent |-> intent,
                greeted_before |-> user_sessions[user_phone].greeted,
                branch |-> p.branch, search_max |-> p.search_max,
                search_raised |-> p.search_raised,
                matches |-> p.matches, generated |-> p.generated,
                response |-> p.response,
                calls |-> MarkReadCalls(mark_ok) \o p.calls
                          \o SendCalls(sends, send_ok),
                mark_ok |-> mark_ok,
                send_ok |-> sends /\ send_ok,
                result |-> HandleResult(p.response, send_ok)]
    /\ UNCHANGED <<faq_data, search, scoring, document, kb, write_failed,
                   assigned, stats, tasks>>

\* mark_message_as_read and, `if response:`, send_text_message; their
\* answers are drawn where they are called
Deliver(webhook_data, user_phone, intent, p, sends) ==
    \E send_ok \in (IF sends THEN BOOLEAN ELSE {FALSE}), mark_ok \in BOOLEAN :
        Replied(webhook_data, user_phone, intent, p, sends, send_ok, mark_ok)

\* the generators' answers are drawn where the router calls them
Generate(webhook_data, user_phone, intent, r) ==
    \E greeting \in (IF r.branch = "greeting" THEN GreetingTexts ELSE {""}),
       generated \in (IF r.relevant_faq # <<>> THEN GeneratedAnswers ELSE {NoneValue}) :
        Deliver(webhook_data, user_phone, intent,
                AnswerMessage(r, greeting, generated),
                LET response == AnswerMessage(r, greeting, generated).response
                IN  Truthy(response) /\ response # Uncaught)

\* bot.handle_message(webhook_data), run to completion
HandleMessage ==
    \E webhook_data \in WebhookEvents :
        LET message_data == ExtractMessageData(webhook_data) IN
        IF IsSkipped(message_data) \/ StripRaises(message_data)
        THEN /\ last' = Unanswered(webhook_data, <<>>)
             /\ UNCHANGED <<faq_data, user_sessions, greetings, search,
                            scoring, document, kb, write_failed,
                            assigned, counted, stats, tasks>>
        ELSE \E intent \in Intents :
                 Generate(webhook_data, message_data.from, intent,
                          RouteMessage(user_sessions, faq_data, message_data.from,
                                       Strip(message_data.text.val), intent))

\* the knowledge bases a bot runs on: three entries that all match the text
\* "aBa", and the same collection with a null question in the second entry
BotFaq ==
    << [id |-> 1, question |-> <<"a", "B", "a", " ", "b">>, answer |-> <<"a", "b">>,
        keywords |-> << <<"a", "b">> >>],
       [id |-> 2, question |-> <<"a", "b", "a">>, answer |-> <<"b", "a", "B">>,
        keywords |-> << <<"b", "a">> >>],
       [id |-> 3, question |-> <<"b", "a", "b">>, answer |-> <<"a", "b", "a">>,
        keywords |-> << <<"a", "a">> >>] >>

MalformedFaq == [BotFaq EXCEPT ![2].question = JsonNull]

Init ==
    /\ faq_data \in {BotFaq, MalformedFaq}
    /\ user_sessions = [u \in Users |-> NoSession]
    /\ greetings = [u \in Users |-> 0]
    /\ last = NoCall
    /\ search = NoSearch
    /\ scoring = NoScoring
    /\ document = ObjectDoc(faq_data)
    /\ kb = NoOperation
    /\ write_failed = FALSE
    /\ Unobserved

Next == HandleMessage

Spec == Init /\ [][Next]_vars

-----------------------------------------------------------------------------
(* The search specification: one search_faq call on a drawn knowledge base *)

\* all strings over the alphabet of length at most n
Strings(n) == UNION {[1..k -> Alphabet] : k \in 0..n}

\* question / answer / keywords of the entries the knowledge bases draw from
EntryPool ==
    { [question |-> <<"a", "B", "a", " ", "b">>, answer |-> <<"a", "b">>,
       keywords |-> << <<"a", "b">> >>],
      [question |-> <<"b", "a", "b">>, answer |-> <<"a", "b", "a">>,
       keywords |-> << <<"a">>, <<"B">> >>],
      [question |-> <<"a", "b", "a">>, answer |-> <<"b", "a", "B">>,
       keywords |-> << <<"b", "a">> >>],
      [question |-> <<"a", "b">>, answer |-> <<"a">>, keywords |-> << <<>> >>] }

\* a knowledge base: entries of the pool, ids 1..n in collection order
KnowledgeBases(n) ==
    UNION { { [i \in 1..k |-> [id |-> i, question |-> p[i].question,
                               answer |-> p[i].answer, keywords |-> p[i].keywords]]
              : p \in [1..k -> EntryPool] } : k \in 0..n }

InitSearch ==
    /\ faq_data \in KnowledgeBases(MaxFaq)
    /\ user_sessions = [u \in Users |-> NoSession]
    /\ greetings = [u \in Users |-> 0]
    /\ last = NoCall
    /\ search = NoSearch
    /\ scoring = NoScoring
    /\ document = ObjectDoc(faq_data)
    /\ kb = NoOperation
    /\ write_failed = FALSE
    /\ Unobserved

\* faq.search_faq(query, max_results)
CallSearchFaq ==
    /\ ~search.done
    /\ \E query \in Strings(MaxQueryLen), max_results \in (0 - MaxResultsArg)..MaxResultsArg :
          search' = [done |-> TRUE, query |-> query, max_results |-> max_results,
                     result |-> SearchFaq(faq_data, query, max_results)]
    /\ UNCHANGED <<faq_data, user_sessions, greetings, last, scoring, document, kb,
                   write_failed, assigned, counted, stats, tasks>>

NextSearch == CallSearchFaq

SpecSearch == InitSearch /\ [][NextSearch]_vars

-----------------------------------------------------------------------------
(* The scoring specification: one direct call of the scorer, or one search *)
(* of a query and of the same query in upper case                          *)

MaxTokens == 2        \* most tokens of a query built from the token pool

\* the characters of the scoring queries: Alphabet and the sharp s
ScoreAlphabet == Alphabet \cup {"sz"}

\* tokens the multi-token queries are built from
TokenPool ==
    { <<"a", "b", "a">>, <<"b", "a", "b">>, <<"a", "B">>, <<"a", "sz", "a">> }

\* the queries of n tokens of the pool, separated by one blank
RECURSIVE TokenQueries(_)
TokenQueries(n) ==
    IF n = 0
    THEN {<<>>}
    ELSE TokenPool
         \cup {q \o <<" ">> \o t : q \in TokenQueries(n - 1) \ {<<>>}, t \in TokenPool}

ScoreQueries ==
    UNION {[1..k -> ScoreAlphabet] : k \in 0..MaxQueryLen} \cup TokenQueries(MaxTokens)

\* the knowledge base the scorer is called on
ScoreFaq ==
    << [id |-> 1, question |-> <<"a", "B", "a", " ", "b">>, answer |-> <<"a", "b">>,
        keywords |-> << <<"a", "b">> >>],
       [id |-> 2, question |-> <<"b", "a", "b">>, answer |-> <<"a", "b", "a">>,
        keywords |-> << <<"a">>, <<"B">> >>],
       [id |-> 3, question |-> <<"a", "b", "a">>, answer |-> <<"b", "a", "B">>,
        keywords |-> << <<"b", "a">> >>],
       [id |-> 4, question |-> <<"a", "b">>, answer |-> <<"a">>, keywords |-> << <<>> >>],
       [id |-> 5, question |-> <<"a", "sz", "a">>, answer |-> <<"B", "a", "sz">>,
        keywords |-> << <<"sz">> >>] >>

InitScore ==
    /\ faq_data = ScoreFaq
    /\ user_sessions = [u \in Users |-> NoSession]
    /\ greetings = [u \in Users |-> 0]
    /\ last = NoCall
    /\ search = NoSearch
    /\ scoring = NoScoring
    /\ document = ObjectDoc(faq_data)
    /\ kb = NoOperation
    /\ write_failed = FALSE
    /\ Unobserved

\* faq._calculate_relevance_score(query, faq_item) on an entry of the collection
CallCalculateRelevanceScore ==
    /\ scoring.kind = "none"
    /\ \E query \in ScoreQueries, k \in 1..Len(faq_data) :
          scoring' = [kind |-> "score", query |-> query, item |-> faq_data[k],
                      score |-> CalculateRelevanceScore(query, faq_data[k])]
    /\ UNCHANGED <<faq_data, user_sessions, greetings, last, search, document, kb,
                   write_failed, assigned, counted, stats, tasks>>

\* faq.search_faq(query, max_results) and faq.search_faq(query.upper(), max_results)
CallSearchFaqUpper ==
    /\ scoring.kind = "none"
    /\ \E query \in ScoreQueries, max_results \in 1..MaxResultsArg :
          scoring' = [kind |-> "search", query |-> query, max_results |-> max_results,
                      result |-> SearchFaq(faq_data, query, max_results),
                      upper_result |-> SearchFaq(faq_data, Upper(query), max_results)]
    /\ UNCHANGED <<faq_data, user_sessions, greetings, last, search, document, kb,
                   write_failed, assigned, counted, stats, tasks>>

NextScore == CallCalculateRelevanceScore \/ CallSearchFaqUpper

SpecScore == InitScore /\ [][NextScore]_vars

-----------------------------------------------------------------------------
(* The knowledge-base specification: add, update, delete and reload on a   *)
(* FAQManager constructed over a drawn document                            *)

MaxEntries == 2       \* the operations are explored on at most this many entries
MaxId == 3            \* largest id add_faq_item is explored to assign

\* the arguments add_faq_item is called with: blank and None / non-list
\* arguments, and two acceptable calls that need trimming and filtering
AddArgs ==
    { [question |-> <<>>, answer |-> <<"a", " ">>, keywords |-> JsonNull],
      [question |-> <<" ">>, answer |-> <<"a", " ">>, keywords |-> JsonNull],
      [question |-> <<" ", "q">>, answer |-> <<>>, keywords |-> JsonNull],
      [question |-> <<" ", "q">>, answer |-> <<" ">>,
       keywords |-> << <<" ", "k">>, <<>>, <<" ">>, JsonNull >>],
      [question |-> <<" ", "q">>, answer |-> <<"a", " ">>, keywords |-> NotAList],
      [question |-> <<" ", "q">>, answer |-> <<"a", " ">>, keywords |-> JsonNull],
      [question |-> <<" ", "q">>, answer |-> <<"a", " ">>,
       keywords |-> << <<" ", "k">>, <<>>, <<" ">>, JsonNull >>] }

\* the optional arguments update_faq_item is called with (JsonNull: not given)
UpdateArgs ==
    { [question |-> JsonNull, answer |-> JsonNull, keywords |-> JsonNull],
      [question |-> <<" ">>, answer |-> JsonNull, keywords |-> JsonNull],
      [question |-> JsonNull, answer |-> <<"v">>, keywords |-> <<>>] }

\* an entry as a document written earlier holds it
StoredEntry(i) ==
    [id |-> i, question |-> <<"q">>, answer |-> <<"a">>, keywords |-> << <<"k">> >>]

InitialDocuments ==
    { MissingDoc, UnparseableDoc, NotObjectDoc, NoFaqDoc, ObjectDoc(<<>>),
      ObjectDoc(<<StoredEntry(2)>>) }

\* the operation opened the document for writing and the write failed
FailedWrite(r) == r.wrote /\ r.outcome # "written"

\* the outcomes the next write is explored with
NextWriteOutcomes ==
    IF write_failed THEN {"written"} ELSE WriteOutcomes

\* the state __init__ leaves: faq_data = [] and then load_faq()
Constructed(r) ==
    /\ faq_data = r.faq_data
    /\ document = r.document
    /\ write_failed = FALSE

InitKb ==
    /\ \E doc \in InitialDocuments, outcome \in WriteOutcomes :
           Constructed(LoadFaq(<<>>, doc, outcome))
    /\ user_sessions = [u \in Users |-> NoSession]
    /\ greetings = [u \in Users |-> 0]
    /\ last = NoCall
    /\ search = NoSearch
    /\ scoring = NoScoring
    /\ kb = NoOperation
    /\ Unobserved

\* the state after an operation whose outcome is r
Applied(op, args, r) ==
    /\ faq_data' = r.faq_data
    /\ document' = r.document
    /\ kb' = [op |-> op, args |-> args, before |-> faq_data, doc_before |-> document,
              result |-> r.result, wrote |-> r.wrote, outcome |-> r.outcome,
              after_add |-> op = "reload" /\ kb.op = "add" /\ kb.result]
    /\ write_failed' = (write_failed \/ FailedWrite(r))
    /\ assigned' = IF op = "add" /\ r.wrote /\ r.faq_data[Len(r.faq_data)].id > assigned
                   THEN r.faq_data[Len(r.faq_data)].id
                   ELSE assigned
    /\ UNCHANGED <<user_sessions, greetings, last, search, scoring, counted, stats,
                   tasks>>

\* faq.add_faq_item(question, answer, keywords)
CallAddFaqItem ==
    /\ Len(faq_data) < MaxEntries
    /\ NewId(faq_data) <= MaxId
    /\ \E args \in AddArgs, outcome \in NextWriteOutcomes :
           Applied("add", args,
                   AddFaqItem(faq_data, document, args.question, args.answer,
                              args.keywords, outcome))

\* faq.update_faq_item(faq_id, question, answer, keywords)
CallUpdateFaqItem ==
    /\ Len(faq_data) <= MaxEntries
    /\ \E faq_id \in 1..MaxId, args \in UpdateArgs, outcome \in NextWriteOutcomes :
           Applied("update",
                   [faq_id |-> faq_id, question |-> args.question,
                    answer |-> args.answer, keywords |-> args.keywords],
                   UpdateFaqItem(faq_data, document, faq_id, args.question,
                                 args.answer, args.keywords, outcome))

\* faq.delete_faq_item(faq_id)
CallDeleteFaqItem ==
    \E faq_id \in 1..MaxId, outcome \in NextWriteOutcomes :
        Applied("delete", [faq_id |-> faq_id],
                DeleteFaqItem(faq_data, document, faq_id, outcome))

\* faq.reload_faq(), which is load_faq(); WhatsAppBot.reload_faq returns its result
CallReloadFaq ==
    \E outcome \in NextWriteOutcomes :
        Applied("reload", <<>>, LoadFaq(faq_data, document, outcome))

NextKb == CallAddFaqItem \/ CallUpdateFaqItem \/ CallDeleteFaqItem \/ CallReloadFaq

SpecKb == InitKb /\ [][NextKb]_vars

-----------------------------------------------------------------------------
(* What a caller holds after get_all_faq / search_faq / get_faq_by_id      *)

\* A returned value is made of objects at three depths: the list (1), the
\* entry dicts in it (2), the keywords list of an entry (3).  The depth down
\* to which the returned value is made of new objects:
\*   get_all_faq    self.faq_data.copy()       a new list of the stored dicts
\*   search_faq     [item[1] for item in ...]  a new list of the stored dicts
\*   get_faq_by_id  item.copy()                a new dict with the stored keywords list
Getters == {"get_all_faq", "search_faq", "get_faq_by_id"}
FreshDepth(getter) == IF getter = "get_faq_by_id" THEN 2 ELSE 1

\* what a caller does to the value it holds, and the depth of the object
\* the edit changes
ListEdits == {"append_entry", "remove_entry"}
EntryEdits == {"set_question", "remove_answer"}
KeywordsEdits == {"append_keyword"}
EditDepth(edit) ==
    IF edit \in ListEdits THEN 1 ELSE IF edit \in EntryEdits THEN 2 ELSE 3

\* the edits a value of the getter offers: get_faq_by_id returns no list
EditsOf(getter) ==
    IF getter = "get_faq_by_id" THEN EntryEdits \cup KeywordsEdits
    ELSE ListEdits \cup EntryEdits \cup KeywordsEdits

EditedText == <<"e">>
ForeignEntry == [id |-> 0, question |-> EditedText, answer |-> EditedText,
                 keywords |-> <<>>]

\* the edit carried out on objects of the collection itself; a removed
\* answer reads as None
EditInPlace(faq, pos, edit) ==
    CASE edit = "append_entry" -> Append(faq, ForeignEntry)
      [] edit = "remove_entry" -> [i \in 1..(Len(faq) - 1) |->
                                      IF i < pos THEN faq[i] ELSE faq[i + 1]]
      [] edit = "set_question" -> [faq EXCEPT ![pos].question = EditedText]
      [] edit = "remove_answer" -> [faq EXCEPT ![pos].answer = JsonNull]
      [] edit = "append_keyword" ->
             [faq EXCEPT ![pos].keywords = Append(@, EditedText)]

\* the collection after the caller's edit: the edit reaches it when the
\* object it changes is one the collection holds too
AfterCallerEdit(faq, getter, pos, edit) ==
    IF EditDepth(edit) > FreshDepth(getter) THEN EditInPlace(faq, pos, edit) ELSE faq

\* the positions in the collection of the entries a getter returns
PositionOf(faq, entry) == CHOOSE i \in 1..Len(faq) : faq[i] = entry
AllPositions(faq) == [i \in 1..Len(faq) |-> i]
SearchPositions(faq, query, max_results) ==
    LET result == SearchFaq(faq, query, max_results)
    IN  [i \in 1..Len(result) |-> PositionOf(faq, result[i])]
IdPositions(faq, faq_id) ==
    IF \E i \in 1..Len(faq) : faq[i].id = faq_id
    THEN << CHOOSE i \in 1..Len(faq) :
                /\ faq[i].id = faq_id
                /\ \A j \in 1..(i - 1) : faq[j].id # faq_id >>
    ELSE <<>>

MaxHeld == 2
HeldQueries == { <<>>, <<"a">>, <<"b", "a">>, <<"B">> }

\* the caller holds the value `getter(args)` returned
Held(getter, args, refs) ==
    /\ kb' = [op |-> getter, args |-> args, before |-> faq_data, refs |-> refs,
              edit |-> "none", at |-> 0]
    /\ UNCHANGED <<faq_data, user_sessions, greetings, last, search, scoring,
                   document, write_failed, assigned, counted, stats, tasks>>

CallGetAllFaq == Held("get_all_faq", <<>>, AllPositions(faq_data))

CallSearchFaqHeld ==
    \E query \in HeldQueries, max_results \in 1..MaxHeld :
        Held("search_faq", [query |-> query, max_results |-> max_results],
             SearchPositions(faq_data, query, max_results))

CallGetFaqById ==
    \E faq_id \in 1..(MaxHeld + 1) :
        Held("get_faq_by_id", [faq_id |-> faq_id], IdPositions(faq_data, faq_id))

\* the caller edits the value it holds: the list itself, or the entry at
\* index `at` of it; explored while the collection is still the loaded one
CallerEdits ==
    /\ kb.op \in Getters
    /\ kb.edit = "none"
    /\ document = ObjectDoc(faq_data)
    /\ \E edit \in EditsOf(kb.op), at \in 1..Len(kb.refs) :
           /\ faq_data' = AfterCallerEdit(faq_data, kb.op, kb.refs[at], edit)
           /\ kb' = [kb EXCEPT !.edit = edit, !.at = at]
    /\ UNCHANGED <<user_sessions, greetings, last, search, scoring, document,
                   write_failed, assigned, counted, stats, tasks>>

InitHeld ==
    /\ faq_data \in KnowledgeBases(MaxHeld)
    /\ user_sessions = [u \in Users |-> NoSession]
    /\ greetings = [u \in Users |-> 0]
    /\ last = NoCall
    /\ search = NoSearch
    /\ scoring = NoScoring
    /\ document = ObjectDoc(faq_data)
    /\ kb = NoOperation
    /\ write_failed = FALSE
    /\ Unobserved

NextHeld == CallGetAllFaq \/ CallSearchFaqHeld \/ CallGetFaqById \/ CallerEdits

SpecHeld == InitHeld /\ [][NextHeld]_vars

-----------------------------------------------------------------------------
(* WhatsAppBot.get_bot_stats                                               *)

\* sum(session.get('message_count', 0) for session in user_sessions.values())
RECURSIVE SumOfCounts(_, _)
SumOfCounts(sessions, users) ==
    IF users = {} THEN 0
    ELSE LET u == CHOOSE v \in users : TRUE
         IN  sessions[u].message_count + SumOfCounts(sessions, users \ {u})

\* a quotient cut after the second decimal instead of rounded
Truncate2(total, users) == (100 * total) \div users

\* round(total / users, 2), in hundredths.  A quotient half way between two
\* hundredths (possible from 8 sessions on) goes to the even one.
Round2(total, users) ==
    LET q == (100 * total) \div users
        r == (100 * total) % users
    IN  IF 2 * r > users THEN q + 1
        ELSE IF 2 * r < users THEN q
        ELSE IF q % 2 = 0 THEN q ELSE q + 1

\* the returned dict; the average is given in hundredths
GetBotStats(sessions, faq) ==
    LET present == {u \in DOMAIN sessions : sessions[u].present}
        total_users == Cardinality(present)
        total_messages == SumOfCounts(sessions, present)
    IN  [called |-> TRUE,
         total_users |-> total_users,
         total_messages |-> total_messages,
         average_messages_per_user |->
             IF total_users > 0 THEN Round2(total_messages, total_users) ELSE 0,
         faq_items |-> Len(faq),
         status |-> "active"]

\* the users of a bot that serves three of them
StatsUsers == {"u1", "u2", "u3"}

\* the sessions handled messages leave: absent, or present with any greeted
\* flag and message count
SessionStates ==
    {NoSession} \cup
    { [present |-> TRUE, greeted |-> g, message_count |-> c, topics |-> <<>>] :
          g \in BOOLEAN, c \in 0..MaxMessageCount }

InitStats ==
    /\ faq_data \in {<<>>, BotFaq, DefaultFaq}
    /\ user_sessions \in [StatsUsers -> SessionStates]
    /\ greetings = [u \in Users |-> 0]
    /\ last = NoCall
    /\ search = NoSearch
    /\ scoring = NoScoring
    /\ document = ObjectDoc(faq_data)
    /\ kb = NoOperation
    /\ write_failed = FALSE
    /\ Unobserved

\* bot.get_bot_stats()
CallGetBotStats ==
    /\ stats' = GetBotStats(user_sessions, faq_data)
    /\ UNCHANGED <<faq_data, user_sessions, greetings, last, search, scoring,
                   document, kb, write_failed, assigned, counted, tasks>>

NextStats == CallGetBotStats

SpecStats == InitStats /\ [][NextStats]_vars

-----------------------------------------------------------------------------
(* Two webhook requests in flight                                          *)

\* app.run() serves every request on a thread of its own and all of them
\* call the one `bot`.  A thread gives way to the others while it waits for
\* the classifier or a generator to answer; the statements between two such
\* calls are taken as one step.
Threads == {"t1", "t2"}

NoRoute == [branch |-> "none"]
Idle == [pc |-> "idle", user |-> "", message |-> <<>>, route |-> NoRoute]

\* the text of the events in flight (it matches entries of BotFaq) and the
\* classifier's answers: one intent of each branch
InFlightMessages == { <<"a", "B", "a">> }
InFlightIntents == {"greeting", "question", "other"}

\* a request holds the session dict itself, never a copy of the session map
SharedSessions == "self.user_sessions"

\* handle_message up to the call of classify_intent: the event is unpacked,
\* marked as read and the session is fetched or created
Receive(t) ==
    /\ tasks[t].pc = "idle"
    /\ \E user_phone \in Users, message \in InFlightMessages :
           /\ user_sessions[user_phone].message_count < MaxMessageCount
           /\ user_sessions' = GetUserSession(user_sessions, user_phone)
           /\ tasks' = [tasks EXCEPT ![t] = [pc |-> "classify", user |-> user_phone,
                                             message |-> message, route |-> NoRoute]]
    /\ UNCHANGED <<faq_data, greetings, last, search, scoring, document, kb,
                   write_failed, assigned, counted, stats>>

\* classify_intent returns: the branch is chosen on the session as it is
\* now, the branch's search runs and the generator is called
Classified(t) ==
    /\ tasks[t].pc = "classify"
    /\ \E intent \in InFlightIntents :
           tasks' = [tasks EXCEPT ![t].pc = "generate",
                                  ![t].route =
                                      [RouteCreated(user_sessions, faq_data,
                                                    tasks[t].user, tasks[t].message,
                                                    intent)
                                       EXCEPT !.sessions = SharedSessions]]
    /\ UNCHANGED <<faq_data, user_sessions, greetings, last, search, scoring,
                   document, kb, write_failed, assigned, counted, stats>>

\* the state after the rest of the request, whose router call gave p
Finished(t, p) ==
    /\ user_sessions' = p.sessions
    /\ greetings' = [greetings EXCEPT ![tasks[t].user] =
                         IF p.branch = "greeting" THEN @ + 1 ELSE @]
    /\ counted' = [counted EXCEPT ![tasks[t].user] =
                       IF AnsweredFromFaq(p) THEN @ + 1 ELSE @]
    /\ tasks' = [tasks EXCEPT ![t] = Idle]
    /\ UNCHANGED <<faq_data, last, search, scoring, document, kb, write_failed,
                   assigned, stats>>

\* the generator returns (or none was called): the session is written as it
\* is now, the reply is sent and the request ends
Generated(t) ==
    /\ tasks[t].pc = "generate"
    /\ \E greeting \in (IF tasks[t].route.branch = "greeting"
                        THEN GreetingTexts ELSE {""}),
          generated \in (IF tasks[t].route.relevant_faq # <<>>
                         THEN GeneratedAnswers ELSE {NoneValue}) :
           Finished(t, AnswerMessage([tasks[t].route EXCEPT !.sessions = user_sessions],
                                     greeting, generated))

InitGreeting ==
    /\ faq_data = BotFaq
    /\ user_sessions = [u \in Users |-> NoSession]
    /\ greetings = [u \in Users |-> 0]
    /\ last = NoCall
    /\ search = NoSearch
    /\ scoring = NoScoring
    /\ document = ObjectDoc(faq_data)
    /\ kb = NoOperation
    /\ write_failed = FALSE
    /\ assigned = 0
    /\ counted = [u \in Users |-> 0]
    /\ stats = NoStats
    /\ tasks = [t \in Threads |-> Idle]

NextGreeting == \E t \in Threads : Receive(t) \/ Classified(t) \/ Generated(t)

SpecGreeting == InitGreeting /\ [][NextGreeting]_vars

-----------------------------------------------------------------------------
(* A search_faq call in flight while the collection is changed             *)

\* search_faq makes no external call, so another thread can run between any
\* two of its statements.  Its steps: the guard of line 108 reads
\* self.faq_data; the `for` of line 114 reads self.faq_data again and
\* iterates that list object; each pass of the loop takes the next element
\* of that object, if it has one, and scores it; after the loop the list of
\* hits is sorted and cut.
Reader == "r1"

MaxChanges == 2

NoSearchTask ==
    [pc |-> "idle", query |-> <<>>, max_results |-> 0, bound |-> FALSE,
     items |-> <<>>, index |-> 0, scored |-> <<>>, versions |-> {}, changes |-> 0,
     result |-> <<>>]

ReaderQueries == { <<>>, <<"a">>, <<"a", "B", "a">> }
ReaderMaxResults == {1, 2}

\* the list object the loop iterates: the one self.faq_data is bound to, or
\* the one it was bound to when the loop began
IteratedList(task) == IF task.bound THEN faq_data ELSE task.items

\* the loop keeps iterating a list object that self.faq_data left
LeftBehind(task, old) ==
    IF task.pc = "loop" /\ task.bound
    THEN [task EXCEPT !.bound = FALSE, !.items = old]
    ELSE task

\* a change that would edit the list object itself: the loop stays on it
StaysBound(task, old) == task

\* self.faq_data = <new list>: load_faq and delete_faq_item
Rebound(task, old) == LeftBehind(task, old)

\* self.faq_data.append(new_item): add_faq_item
Appended(task, old) == task

\* line 108: `if not query or not self.faq_data: return []`
StartSearch ==
    /\ tasks[Reader].pc = "idle"
    /\ \E query \in ReaderQueries, max_results \in ReaderMaxResults :
           tasks' = [tasks EXCEPT ![Reader] =
                        [NoSearchTask EXCEPT
                            !.pc = IF query = <<>> \/ faq_data = <<>>
                                   THEN "done" ELSE "for",
                            !.query = query, !.max_results = max_results,
                            !.versions = {faq_data}]]
    /\ UNCHANGED <<faq_data, user_sessions, greetings, last, search, scoring,
                   document, kb, write_failed, assigned, counted, stats>>

\* line 114: iter(self.faq_data)
BeginLoop ==
    /\ tasks[Reader].pc = "for"
    /\ tasks' = [tasks EXCEPT ![Reader].pc = "loop", ![Reader].bound = TRUE]
    /\ UNCHANGED <<faq_data, user_sessions, greetings, last, search, scoring,
                   document, kb, write_failed, assigned, counted, stats>>

\* lines 114-117: one pass of the loop
ScoreNext ==
    /\ tasks[Reader].pc = "loop"
    /\ tasks[Reader].index < Len(IteratedList(tasks[Reader]))
    /\ LET faq_item == IteratedList(tasks[Reader])[tasks[Reader].index + 1]
           score == CalculateRelevanceScore(Lower(tasks[Reader].query), faq_item)
       IN  tasks' = [tasks EXCEPT
                        ![Reader].index = @ + 1,
                        ![Reader].scored =
                            IF IsRelevant(score)
                            THEN Append(@, [score |-> score, item |-> faq_item])
                            ELSE @]
    /\ UNCHANGED <<faq_data, user_sessions, greetings, last, search, scoring,
                   document, kb, write_failed, assigned, counted, stats>>

\* lines 120-125: the iterator is exhausted; sort, cut and return
EndSearch ==
    /\ tasks[Reader].pc = "loop"
    /\ tasks[Reader].index >= Len(IteratedList(tasks[Reader]))
    /\ LET top == SliceTo(SortByScoreDesc(tasks[Reader].scored),
                          tasks[Reader].max_results)
       IN  tasks' = [tasks EXCEPT ![Reader].pc = "done",
                                  ![Reader].result = [i \in 1..Len(top) |-> top[i].item]]
    /\ UNCHANGED <<faq_data, user_sessions, greetings, last, search, scoring,
                   document, kb, write_failed, assigned, counted, stats>>

\* another thread's operation with outcome r while the search is in flight
Changed(task, r) ==
    /\ tasks[Reader].pc \in {"for", "loop"}
    /\ tasks[Reader].changes < MaxChanges
    /\ faq_data' = r.faq_data
    /\ document' = r.document
    /\ tasks' = [tasks EXCEPT ![Reader] =
                    [task EXCEPT !.versions = @ \cup {r.faq_data},
                                 !.changes = @ + 1]]
    /\ UNCHANGED <<user_sessions, greetings, last, search, scoring, kb,
                   write_failed, assigned, counted, stats>>

ReaderAddArgs ==
    [question |-> <<"a", "b", "a">>, answer |-> <<"b">>, keywords |-> << <<"a">> >>]

ConcurrentAdd ==
    /\ Len(faq_data) <= MaxFaq
    /\ Changed(Appended(tasks[Reader], faq_data),
               AddFaqItem(faq_data, document, ReaderAddArgs.question,
                          ReaderAddArgs.answer, ReaderAddArgs.keywords, "written"))

ConcurrentDelete ==
    \E faq_id \in 1..MaxFaq :
        Changed(Rebound(tasks[Reader], faq_data),
                DeleteFaqItem(faq_data, document, faq_id, "written"))

\* reload_faq assigns self.faq_data when the document is an object
ConcurrentReload ==
    /\ document.kind = "object"
    /\ Changed(Rebound(tasks[Reader], faq_data),
               LoadFaq(faq_data, document, "written"))

\* the collection in memory, and the document as an operator has left it
InitReader ==
    /\ faq_data \in KnowledgeBases(2)
    /\ document \in {ObjectDoc(faq_data), ObjectDoc(<<>>), ObjectDoc(BotFaq)}
    /\ user_sessions = [u \in Users |-> NoSession]
    /\ greetings = [u \in Users |-> 0]
    /\ last = NoCall
    /\ search = NoSearch
    /\ scoring = NoScoring
    /\ kb = NoOperation
    /\ write_failed = FALSE
    /\ assigned = 0
    /\ counted = [u \in Users |-> 0]
    /\ stats = NoStats
    /\ tasks = [t \in {Reader} |-> NoSearchTask]

NextReader ==
    \/ StartSearch \/ BeginLoop \/ ScoreNext \/ EndSearch
    \/ ConcurrentAdd \/ ConcurrentDelete \/ ConcurrentReload

SpecReader == InitReader /\ [][NextReader]_vars

-----------------------------------------------------------------------------
(* Claims about the router and handle_message, checked under Spec          *)

CallsMade == {last.calls[i] : i \in 1..Len(last.calls)}

\* the observed event carries a text message with a non-empty string
Processable(webhook_data) ==
    /\ webhook_data.shape = "message"
    /\ webhook_data.type = "text"
    /\ webhook_data.body.kind = "str"
    /\ webhook_data.body.val # <<>>

RoutedCall == last.called /\ last.routed

\* the search returned matches and the generator a non-empty text
Grounded == last.matches > 0 /\ Truthy(last.generated)

\* C1 (state part): the greeting short-circuit ran at most once per user; a
\* 'greeting' message of a user not yet greeted takes it (generator invoked,
\* its text returned, greeted set), and a 'greeting' message of a greeted
\* user goes through the default branch with a 2-result search.
C1_State ==
    /\ \A u \in Users : greetings[u] <= 1
    /\ (RoutedCall /\ last.intent = "greeting") =>
           IF last.greeted_before
           THEN /\ last.branch = "default"
                /\ last.search_max = DefaultMaxResults
                /\ "greet" \notin CallsMade
                /\ ~last.search_raised =>
                       last.response = (IF Grounded THEN last.generated
                                                    ELSE GeneralHelpResponse)
           ELSE /\ last.branch = "greeting"
                /\ "greet" \in CallsMade
                /\ last.response = last.generated
                /\ user_sessions[last.user].greeted
                /\ greetings[last.user] = 1

\* C1 (step part): greeted never goes back to false.
C1_Step ==
    \A u \in Users : user_sessions[u].greeted => user_sessions'[u].greeted

\* C1: for every user and every sequence of messages handled one at a time
\* the greeting short-circuit is taken at most once, on the first message
\* classified 'greeting' while greeted is false; greeted never goes back to
\* false, and later 'greeting' messages take the default branch.
C1_GreetingOnce == [](C1_State) /\ [][C1_Step]_vars

\* a second 'greeting' message of a greeted user, routed by default
C1_Witness ==
    /\ RoutedCall
    /\ last.intent = "greeting"
    /\ last.greeted_before
    /\ last.branch = "default"
    /\ greetings[last.user] = 1

\* C2: for an intent among question, support, order, complaint the search
\* runs with max_results=3; the generated answer is returned when the search
\* is non-empty and the generator's text is non-empty; when the search is
\* empty or the generator returns nothing or an empty text the fallback
\* template is returned, and never the general-help template.
C2_FaqBranch ==
    (RoutedCall /\ last.intent \in {"question", "support", "order", "complaint"}) =>
        /\ last.branch = "faq"
        /\ last.search_max = 3
        /\ "search" \in CallsMade
        /\ ~last.search_raised =>
               last.response = (IF Grounded THEN last.generated ELSE FallbackResponse)
        /\ last.response # GeneralHelpResponse

\* a 'question' message with three matches whose generation came back empty
C2_Witness ==
    /\ RoutedCall
    /\ last.intent = "question"
    /\ last.matches = 3
    /\ "generate" \in CallsMade
    /\ last.generated = ""
    /\ last.response = FallbackResponse

\* the message took the else branch of the router
OtherLabel ==
    /\ RoutedCall
    /\ last.intent \notin {"question", "support", "order", "complaint"}
    /\ ~(last.intent = "greeting" /\ ~last.greeted_before)

\* C3 (as stated): for every other label that does not take the
\* first-greeting branch the search runs with max_results=2 and the result
\* is the generated answer if matches exist and generation yields a
\* non-empty text, otherwise the general-help template; never the error
\* template or the fallback template.
C3_Original ==
    OtherLabel =>
        /\ last.search_max = 2
        /\ last.response = (IF Grounded THEN last.generated ELSE GeneralHelpResponse)
        /\ last.response \notin {ErrorResponse, FallbackResponse}

\* C3 (amended): as C3 when the search returns; the fallback template is
\* never returned, and the error template is returned exactly when the
\* search itself raises.
C3_DefaultBranch ==
    OtherLabel =>
        /\ last.branch = "default"
        /\ last.search_max = 2
        /\ "search" \in CallsMade
        /\ ~last.search_raised =>
               last.response = (IF Grounded THEN last.generated
                                            ELSE GeneralHelpResponse)
        /\ last.response # FallbackResponse
        /\ last.response = ErrorResponse <=> last.search_raised

\* the unrecognized label "xyz" answered from two matches
C3_Witness ==
    /\ RoutedCall
    /\ last.intent = "xyz"
    /\ last.search_max = 2
    /\ last.matches = 2
    /\ last.response = "answer_text"

\* C4: no failure escapes: when the search raises inside the router the
\* result is the error template, and handle_message returns a boolean for
\* every inbound event, also when reading the text raises.
C4_NoEscape ==
    last.called =>
        /\ last.result \in BOOLEAN
        /\ last.response # Uncaught
        /\ (last.routed /\ last.search_raised) => last.response = ErrorResponse
        /\ last.event.body.kind = "int" => last.result = FALSE

\* the search raised and the error template went out
C4_Witness ==
    /\ RoutedCall
    /\ last.search_raised
    /\ last.response = ErrorResponse
    /\ "send" \in CallsMade
    /\ last.result = TRUE

\* C5: handle_message returns true if and only if the event was a
\* processable text message, a reply text was produced and
\* send_text_message returned true.
C5_ResultIff ==
    last.called =>
        (last.result = TRUE <=>
            /\ Processable(last.event)
            /\ Truthy(last.response)
            /\ "send" \in CallsMade
            /\ last.send_ok)

\* a reply was produced and sent, but delivery failed
C5_Witness ==
    /\ last.called
    /\ Processable(last.event)
    /\ Truthy(last.response)
    /\ "send" \in CallsMade
    /\ ~last.send_ok
    /\ last.result = FALSE

\* C6: for an event with no extractable message, or whose message is not a
\* non-empty text message, handle_message returns false and makes no
\* send_text_message call.
C6_SkippedNoSend ==
    (last.called /\ ~Processable(last.event)) =>
        /\ last.result = FALSE
        /\ "send" \notin CallsMade

\* a payload without a message array was handled
C6_Witness ==
    /\ last.called
    /\ last.event.shape = "no_messages"
    /\ last.result = FALSE
    /\ last.calls = <<>>

\* C7 (as stated): for every processable text message the router yields a
\* non-empty text and handle_message makes a delivery attempt.
C7_AlwaysReplies ==
    (last.called /\ Processable(last.event)) =>
        /\ Truthy(last.response)
        /\ "send" \in CallsMade

-----------------------------------------------------------------------------
(* Claims about search_faq, checked under SpecSearch                       *)

\* the score search_faq computes for an entry on the observed query
ScoreOf(faq_item) == CalculateRelevanceScore(Lower(search.query), faq_item)

\* the position of an entry in the collection (ids are unique)
IndexIn(items, faq_item) == CHOOSE k \in 1..Len(items) : items[k].id = faq_item.id

\* the entries of the collection with a positive score, as positions
PositiveEntries == {k \in 1..Len(faq_data) : ScoreOf(faq_data[k]) > 0}

\* C8: for a non-empty query and a non-empty knowledge base the returned
\* entries are in non-increasing score order, and returned entries of equal
\* score are in the order they have in the collection.
C8_SortedStable ==
    (search.done /\ search.query # <<>> /\ faq_data # <<>>) =>
        \A i, j \in 1..Len(search.result) :
            i < j =>
                /\ ScoreOf(search.result[i]) >= ScoreOf(search.result[j])
                /\ ScoreOf(search.result[i]) = ScoreOf(search.result[j]) =>
                       IndexIn(faq_data, search.result[i])
                           < IndexIn(faq_data, search.result[j])

\* three entries returned: a higher score first, then two of equal score
C8_Witness ==
    /\ search.done
    /\ Len(search.result) = 3
    /\ ScoreOf(search.result[1]) > ScoreOf(search.result[2])
    /\ ScoreOf(search.result[2]) = ScoreOf(search.result[3])
    /\ IndexIn(faq_data, search.result[1]) > IndexIn(faq_data, search.result[2])

\* the result is a leading part of the ranked list of positive-score entries
IsLeadingPartOfRanked ==
    LET ranked == Ranked(faq_data, search.query)
    IN  /\ Len(search.result) <= Len(ranked)
        /\ \A i \in 1..Len(search.result) : search.result[i] = ranked[i].item

\* C9 (as stated): for every query and every integer max_results, negative
\* values and 0 included, search_faq returns at most max(0, max_results)
\* entries, and the result is the leading part of the ranked list.
C9_AtMostMaxResults ==
    search.done =>
        /\ Len(search.result)
               <= (IF search.max_results > 0 THEN search.max_results ELSE 0)
        /\ IsLeadingPartOfRanked

\* the three parts of C10 on the observed call
OnlyPositiveReturned ==
    \A i \in 1..Len(search.result) : ScoreOf(search.result[i]) > 0

AllPositiveReturned ==
    search.max_results >= Cardinality(PositiveEntries) =>
        {IndexIn(faq_data, search.result[i]) : i \in 1..Len(search.result)}
            = PositiveEntries

\* no keyword occurs in the query and no query token longer than 2
\* characters occurs in a question or an answer (case-insensitively)
NothingOccurs ==
    LET q == Lower(search.query)
        words == Split(q)
    IN  \A k \in 1..Len(faq_data) :
            /\ \A n \in 1..Len(faq_data[k].keywords) :
                   ~Contains(Lower(faq_data[k].keywords[n]), q)
            /\ \A w \in 1..Len(words) :
                   Len(words[w]) > 2 =>
                       /\ ~Contains(words[w], Lower(faq_data[k].question))
                       /\ ~Contains(words[w], Lower(faq_data[k].answer))

\* C10 (as stated): an entry is returned only if its score is strictly
\* positive; when max_results is at least the number of positive-score
\* entries all of them are returned; a query in which nothing occurs yields
\* an empty result.
C10_Original ==
    search.done =>
        /\ OnlyPositiveReturned
        /\ AllPositiveReturned
        /\ NothingOccurs => search.result = <<>>

\* C10 (amended): as C10, with "all positive-score entries are returned"
\* stated for non-empty queries only (an empty query returns nothing, also
\* when an entry with an empty keyword scores 3.0 on it).
C10_PositiveOnly ==
    search.done =>
        /\ OnlyPositiveReturned
        /\ search.query # <<>> => AllPositiveReturned
        /\ NothingOccurs => search.result = <<>>

\* a non-empty query on which some entries score 0 and are left out while
\* every positive-score entry is returned
C10_Witness ==
    /\ search.done
    /\ search.query # <<>>
    /\ search.result # <<>>
    /\ search.max_results >= Cardinality(PositiveEntries)
    /\ Len(search.result) = Cardinality(PositiveEntries)
    /\ Len(search.result) < Len(faq_data)

\* C11: a search with an empty query, or any query on an empty knowledge
\* base, returns the empty sequence, whatever max_results is.
C11_EmptyGivesEmpty ==
    (search.done /\ (search.query = <<>> \/ faq_data = <<>>)) =>
        search.result = <<>>

\* an empty query, a positive max_results and an entry that scores on the
\* empty query (an empty keyword): the guard alone keeps the result empty
C11_Witness ==
    /\ search.done
    /\ search.query = <<>>
    /\ search.max_results > 0
    /\ \E k \in 1..Len(faq_data) :
           CalculateRelevanceScore(<<>>, faq_data[k]) > 0
    /\ search.result = <<>>

-----------------------------------------------------------------------------
(* Claims about the scorer and letter case, checked under SpecScore        *)

\* the positions of the keywords whose lower-case form occurs in the query
MatchingKeywords(query, faq_item) ==
    {n \in 1..Len(faq_item.keywords) : Contains(Lower(faq_item.keywords[n]), query)}

\* the positions of the query's tokens that are longer than 2 characters
LongTokens(query) == {w \in 1..Len(Split(query)) : Len(Split(query)[w]) > 2}

TokensInQuestion(query, faq_item) ==
    {w \in LongTokens(query) : Contains(Split(query)[w], Lower(faq_item.question))}

\* tokens that occur in one word of the question but not in the question
TokensInOneWordOnly(query, faq_item) ==
    {w \in LongTokens(query) \ TokensInQuestion(query, faq_item) :
        \E k \in 1..Len(Split(Lower(faq_item.question))) :
            Contains(Split(query)[w], Split(Lower(faq_item.question))[k])}

TokensInAnswer(query, faq_item) ==
    {w \in LongTokens(query) : Contains(Split(query)[w], Lower(faq_item.answer))}

\* the score the claim describes, in half units
DescribedScore(query, faq_item) ==
    6 * Cardinality(MatchingKeywords(query, faq_item))
    + 4 * Cardinality(TokensInQuestion(query, faq_item))
    + 2 * Cardinality(TokensInOneWordOnly(query, faq_item))
    + Cardinality(TokensInAnswer(query, faq_item))

\* C12: for a lower-case query, _calculate_relevance_score is 3.0 per
\* keyword whose lower-case form occurs in the query, plus, per token longer
\* than 2 characters, 2.0 if it occurs in the lower-cased question or else 1.0
\* if it occurs in one word of it, plus 0.5 per such token that occurs in the
\* lower-cased answer; it is 0 when nothing matches and never negative.
C12_ScoreFormula ==
    (scoring.kind = "score" /\ Lower(scoring.query) = scoring.query) =>
        /\ scoring.score = DescribedScore(scoring.query, scoring.item)
        /\ scoring.score >= 0
        /\ (/\ MatchingKeywords(scoring.query, scoring.item) = {}
            /\ TokensInQuestion(scoring.query, scoring.item) = {}
            /\ TokensInAnswer(scoring.query, scoring.item) = {}) =>
               scoring.score = 0

\* a lower-case query of two long tokens, scored on an entry where a keyword,
\* a question token and an answer token all count, and a short token counts
\* for nothing
C12_Witness ==
    /\ scoring.kind = "score"
    /\ Lower(scoring.query) = scoring.query
    /\ Cardinality(LongTokens(scoring.query)) = 2
    /\ MatchingKeywords(scoring.query, scoring.item) # {}
    /\ TokensInQuestion(scoring.query, scoring.item) # {}
    /\ TokensInAnswer(scoring.query, scoring.item) # {}
    /\ scoring.score = DescribedScore(scoring.query, scoring.item)

\* C13 (as stated): scoring is case-insensitive: for every query q and entry e
\* the score search_faq computes for q equals the one it computes for
\* q.upper(), so both searches return the same entries in the same order.
C13_CaseInsensitive ==
    scoring.kind = "search" =>
        /\ \A k \in 1..Len(faq_data) :
               CalculateRelevanceScore(Lower(scoring.query), faq_data[k])
                   = CalculateRelevanceScore(Lower(Upper(scoring.query)), faq_data[k])
        /\ scoring.result = scoring.upper_result

-----------------------------------------------------------------------------
(* Claims about the knowledge-base operations, checked under SpecKb        *)

\* a text that is empty or made of blanks only
EmptyOrWhitespace(text) == \A i \in 1..Len(text) : text[i] = " "

\* the text without its leading and trailing blanks is not empty
NonEmptyTrimmed(text) == \E i \in 1..Len(text) : text[i] # " "

IdsOf(items) == {items[i].id : i \in 1..Len(items)}

\* the greatest id of the collection, 0 for the empty collection
GreatestId(items) ==
    IF items = <<>> THEN 0 ELSE CHOOSE m \in IdsOf(items) : \A n \in IdsOf(items) : n <= m

\* the observed operation changed nothing and did not open the document
NothingChanged ==
    /\ faq_data = kb.before
    /\ document = kb.doc_before
    /\ ~kb.wrote

\* C14: add_faq_item with a question or an answer that is empty or
\* whitespace-only returns failure and leaves the in-memory collection and
\* the persisted document unchanged.
C14_BlankRejected ==
    (/\ kb.op = "add"
     /\ \/ kb.args.question = JsonNull
        \/ kb.args.answer = JsonNull
        \/ EmptyOrWhitespace(kb.args.question)
        \/ EmptyOrWhitespace(kb.args.answer)) =>
        /\ ~kb.result
        /\ NothingChanged

\* a whitespace-only answer with an acceptable question and a keyword list,
\* rejected on a collection that holds an entry
C14_Witness ==
    /\ kb.op = "add"
    /\ NonEmptyTrimmed(kb.args.question)
    /\ kb.args.answer = <<" ">>
    /\ kb.before # <<>>
    /\ ~kb.result
    /\ NothingChanged

\* C15: from the constructed collection (ids unique and >= 1), after any
\* sequence of add, update and delete calls every id in the collection is
\* unique and >= 1, and each accepted add appends one entry whose id is the
\* greatest id before the call (0 for the empty collection) plus 1.
C15_UniqueIds ==
    /\ \A i, j \in 1..Len(faq_data) :
           /\ faq_data[i].id >= 1
           /\ i # j => faq_data[i].id # faq_data[j].id
    /\ (kb.op = "add" /\ kb.wrote) =>
           /\ Len(faq_data) = Len(kb.before) + 1
           /\ SubSeq(faq_data, 1, Len(kb.before)) = kb.before
           /\ faq_data[Len(faq_data)].id = GreatestId(kb.before) + 1

\* an accepted add on a collection whose greatest id is larger than its
\* length: the new id is not the new length
C15_Witness ==
    /\ kb.op = "add"
    /\ kb.wrote
    /\ kb.before # <<>>
    /\ faq_data[Len(faq_data)].id = GreatestId(kb.before) + 1
    /\ faq_data[Len(faq_data)].id > Len(faq_data)

\* C16 (as stated): after any sequence of add, update and delete calls on a
\* collection that satisfied it initially, every entry's question and answer
\* are non-empty after trimming.
C16_NonEmptyTexts ==
    \A i \in 1..Len(faq_data) :
        /\ NonEmptyTrimmed(faq_data[i].question)
        /\ NonEmptyTrimmed(faq_data[i].answer)

\* the positions of kb.before that hold the id the observed call names
PositionsOfId == {i \in 1..Len(kb.before) : kb.before[i].id = kb.args.faq_id}

\* the field of the entry at position i holds the supplied value, or what
\* it held before when nothing was supplied
FieldAsSupplied(supplied, before, after) ==
    IF supplied # JsonNull THEN after = supplied ELSE after = before

\* C17: update_faq_item on an existing id changes only the supplied
\* (non-None) fields of the entry with that id and leaves its other fields,
\* its id, its position and every other entry unchanged; on an id that is
\* not in the collection it returns failure, changes nothing in memory and
\* does not write the document.
C17_UpdateFrame ==
    kb.op = "update" =>
        IF PositionsOfId # {}
        THEN /\ Len(faq_data) = Len(kb.before)
             /\ \A i \in 1..Len(kb.before) :
                    IF i \in PositionsOfId
                    THEN /\ faq_data[i].id = kb.before[i].id
                         /\ FieldAsSupplied(kb.args.question, kb.before[i].question,
                                            faq_data[i].question)
                         /\ FieldAsSupplied(kb.args.answer, kb.before[i].answer,
                                            faq_data[i].answer)
                         /\ FieldAsSupplied(kb.args.keywords, kb.before[i].keywords,
                                            faq_data[i].keywords)
                    ELSE faq_data[i] = kb.before[i]
        ELSE /\ ~kb.result
             /\ NothingChanged

\* an update of the question alone on the second of two entries: the
\* question changed, the answer and the keywords did not
C17_Witness ==
    /\ kb.op = "update"
    /\ Len(kb.before) = 2
    /\ kb.before[2].id = kb.args.faq_id
    /\ kb.args.question # JsonNull
    /\ kb.args.answer = JsonNull
    /\ faq_data[2].question # kb.before[2].question
    /\ faq_data[2].answer = kb.before[2].answer
    /\ faq_data[1] = kb.before[1]

\* C18: delete_faq_item on an existing id removes the entries with that id
\* and keeps every other entry in its original relative order, then writes
\* the document; on an id that is not in the collection it returns failure,
\* leaves the collection unchanged and does not write the document.
C18_DeleteFrame ==
    kb.op = "delete" =>
        IF PositionsOfId # {}
        THEN /\ faq_data = SelectSeq(kb.before, LAMBDA e : e.id # kb.args.faq_id)
             /\ kb.wrote
             /\ kb.result => document = ObjectDoc(faq_data)
        ELSE /\ ~kb.result
             /\ NothingChanged

\* the first of three entries deleted: the other two stay, in their order
C18_Witness ==
    /\ kb.op = "delete"
    /\ Len(kb.before) = 3
    /\ kb.before[1].id = kb.args.faq_id
    /\ faq_data = <<kb.before[2], kb.before[3]>>
    /\ kb.result

\* the collection the observed operation leaves when its write succeeds
ChangeOf(before, doc) ==
    CASE kb.op = "add" ->
             AddFaqItem(before, doc, kb.args.question, kb.args.answer,
                        kb.args.keywords, "written").faq_data
      [] kb.op = "update" ->
             UpdateFaqItem(before, doc, kb.args.faq_id, kb.args.question,
                           kb.args.answer, kb.args.keywords, "written").faq_data
      [] kb.op = "delete" ->
             DeleteFaqItem(before, doc, kb.args.faq_id, "written").faq_data

\* C19: add, update and delete return success only if the write of the
\* document succeeded, so after a success the document holds the in-memory
\* collection; when the write fails the operation returns failure while the
\* in-memory collection keeps the change.
C19_SuccessMeansWritten ==
    kb.op \in {"add", "update", "delete"} =>
        /\ kb.result =>
               /\ kb.wrote
               /\ kb.outcome = "written"
               /\ document = ObjectDoc(faq_data)
        /\ (kb.wrote /\ kb.outcome # "written") =>
               /\ ~kb.result
               /\ faq_data = ChangeOf(kb.before, kb.doc_before)

\* an add whose write was refused: failure is returned, the new entry is in
\* memory and the document still holds the old collection
C19_Witness ==
    /\ kb.op = "add"
    /\ kb.wrote
    /\ kb.outcome = "refused"
    /\ ~kb.result
    /\ Len(faq_data) = Len(kb.before) + 1
    /\ document = ObjectDoc(kb.before)

\* C20 (as stated): load_faq (reload_faq, WhatsAppBot.reload_faq) on a missing
\* document does not fail: it writes the built-in default document, leaves
\* exactly the 5 default entries (ids 1..5) in memory and reports success.
C20_MissingGivesDefaults ==
    (kb.op = "reload" /\ kb.doc_before.kind = "missing") =>
        /\ document = ObjectDoc(DefaultFaq)
        /\ Len(faq_data) = 5
        /\ \A i \in 1..Len(faq_data) : faq_data[i].id = i
        /\ faq_data = DefaultFaq
        /\ kb.result

\* a document whose content is malformed: it cannot be parsed, or it is not
\* shaped as an object with a "faq" list
Malformed(doc) == doc.kind \in {"unparseable", "not_object", "object_without_faq"}

\* C21: load_faq / reload_faq on a document with malformed content returns
\* failure and leaves the in-memory collection exactly as it was before
C21_MalformedLeavesMemory ==
    (kb.op = "reload" /\ Malformed(kb.doc_before))
        => (~kb.result /\ faq_data = kb.before)

\* C22: nothing a caller does to the value get_all_faq, search_faq or
\* get_faq_by_id returned changes the knowledge base: after the caller's
\* edit the collection and every entry in it are the same as before
C22_ReturnedValuesDetached ==
    (kb.op \in Getters /\ kb.edit # "none") => faq_data = kb.before

-----------------------------------------------------------------------------
(* Claims about the sessions and the statistics                            *)

SessionsIn(sessions) == {u \in DOMAIN sessions : sessions[u].present}

\* first access creates {greeted: false, message_count: 0, topics: []}; a
\* later access returns the stored record; a second access right after the
\* first returns the same content and adds no session
C24_GetIsStable ==
    \A u \in Users :
        LET once == GetUserSession(user_sessions, u)
            twice == GetUserSession(once, u)
        IN  /\ once[u].present
            /\ user_sessions[u].present => once = user_sessions
            /\ ~user_sessions[u].present =>
                   /\ ~once[u].greeted /\ once[u].message_count = 0
                   /\ once[u].topics = <<>>
                   /\ SessionsIn(once) = SessionsIn(user_sessions) \cup {u}
            /\ \A v \in Users \ {u} : once[v] = user_sessions[v]
            /\ twice = once
            /\ Cardinality(SessionsIn(twice)) = Cardinality(SessionsIn(once))

\* a handled message never removes, replaces or resets a session: every
\* stored session stays, keeps greeted once set and never counts down, and
\* the other users' sessions are as they were
C24_SessionKept ==
    \A u \in Users :
        /\ user_sessions[u].present =>
               /\ user_sessions'[u].present
               /\ user_sessions[u].greeted => user_sessions'[u].greeted
               /\ user_sessions'[u].message_count >= user_sessions[u].message_count
               /\ user_sessions'[u].topics = user_sessions[u].topics
        /\ (last'.called /\ last'.routed /\ u # last'.user) =>
               user_sessions'[u] = user_sessions[u]

\* C24: _get_user_session creates a session {greeted: false, message_count:
\* 0, topics: []} on first access and never replaces or resets it afterwards:
\* later calls return the same record with the last written values, and two
\* calls in a row return equal content and leave the number of sessions as
\* it is
C24_SessionCreatedOnce == []C24_GetIsStable /\ [][C24_SessionKept]_vars

\* a user whose session was greeted and had counted a message sent another
\* message, and the session still holds both
C24_Witness ==
    /\ last.called /\ last.routed /\ last.greeted_before
    /\ user_sessions[last.user].greeted
    /\ user_sessions[last.user].message_count >= 1
    /\ last.branch = "default"
    /\ \E v \in Users \ {last.user} : ~user_sessions[v].present

\* the counts get_bot_stats reports are those of the state; the sum of the
\* message counts is the number of (session, k) with 1 <= k <= its count
StatsCounts ==
    /\ stats.total_users = Cardinality(SessionsIn(user_sessions))
    /\ stats.total_messages =
           Cardinality({ uk \in SessionsIn(user_sessions) \X (1..MaxMessageCount) :
                             uk[2] <= user_sessions[uk[1]].message_count })
    /\ stats.faq_items = Len(faq_data)
    /\ stats.total_users = 0 => stats.average_messages_per_user = 0

-----------------------------------------------------------------------------
(* Claims about requests in flight                                         *)

\* the requests of user u that have taken the greeting short-circuit and wait
\* for the greeting generator
GreetingInFlight(u) ==
    {t \in Threads : /\ tasks[t].pc = "generate"
                     /\ tasks[t].user = u
                     /\ tasks[t].route.branch = "greeting"}

\* C26: when two events of the same new user, both classified 'greeting',
\* are processed concurrently, at most one of them takes the greeting
\* short-circuit: the check of greeted and the write greeted = true behave as
\* one atomic step
C26_OneGreetingInFlight ==
    \A u \in Users : greetings[u] + Cardinality(GreetingInFlight(u)) <= 1

\* C27: a search_faq call that runs concurrently with reload_faq,
\* add_faq_item or delete_faq_item returns a result computed entirely from
\* one version of the collection, the one before or the one after a change:
\* it is what search_faq returns on one of the values the collection had
\* during the call
C27_OneVersion ==
    tasks[Reader].pc = "done" =>
        \E version \in tasks[Reader].versions :
            tasks[Reader].result = SearchFaq(version, tasks[Reader].query,
                                             tasks[Reader].max_results)

\* a search that ended after the collection was changed under it, with hits,
\* and whose result is not that of every version
C27_Witness ==
    /\ tasks[Reader].pc = "done"
    /\ tasks[Reader].changes >= 1
    /\ tasks[Reader].result # <<>>
    /\ \E version \in tasks[Reader].versions :
           tasks[Reader].result # SearchFaq(version, tasks[Reader].query,
                                           tasks[Reader].max_results)

-----------------------------------------------------------------------------
(* Claims about the ids over a sequence of operations                      *)

\* an add that passed validation gives its entry an id greater than every
\* id add_faq_item has assigned before
C28_AssignsGreater ==
    (kb'.op = "add" /\ kb'.wrote) => faq_data'[Len(faq_data')].id > assigned

\* C28: entry ids are monotonically assigned: over any sequence of add and
\* delete calls each accepted add assigns an id strictly greater than every
\* id assigned earlier, so the id of a deleted entry is never given to a
\* later entry
C28_IdsMonotonic == [][C28_AssignsGreater]_vars

-----------------------------------------------------------------------------
(* Claims about handle_message over a sequence of messages                 *)

\* every user's message_count is the number of that user's messages that
\* were answered from the knowledge base in the branch of the four FAQ intents
C29_CountIsHistory ==
    \A u \in Users : user_sessions[u].message_count = counted[u]

\* the message just handled took the question / support / order / complaint
\* branch with a non-empty search and a non-empty generated answer
TookCountedPath ==
    /\ last'.branch = "faq"
    /\ last'.matches > 0
    /\ Truthy(last'.generated)

\* such a message adds exactly one to its user's message_count and any other
\* message leaves every message_count as it was
C29_CountsOne ==
    \A u \in Users :
        user_sessions'[u].message_count =
            IF last'.called /\ last'.routed /\ u = last'.user /\ TookCountedPath
            THEN user_sessions[u].message_count + 1
            ELSE user_sessions[u].message_count

\* C29: after any sequence of messages handled one at a time a user's
\* message_count equals the number of that user's messages that took the
\* question / support / order / complaint branch with a non-empty search and
\* a non-empty generated answer; each such message adds exactly one, and a
\* message answered by the greeting, the fallback, the general help, the
\* error template or a generated answer of the default branch adds nothing
C29_MessageCount == []C29_CountIsHistory /\ [][C29_CountsOne]_vars

\* a user with two counted messages got a generated answer in the default
\* branch, which was not counted
C29_Witness ==
    /\ last.called /\ last.routed
    /\ last.branch = "default" /\ Truthy(last.generated)
    /\ user_sessions[last.user].message_count = 2
    /\ counted[last.user] = 2

\* how often a collaborator call occurs in a sequence of calls
TimesCalled(calls, name) == Cardinality({i \in 1..Len(calls) : calls[i] = name})

\* the calls between classify and send: the greeting generator, or the
\* search followed, when it found entries, by the answer generator
BetweenClassifyAndSend == { <<"greet">>, <<"search">>, <<"search", "generate">> }

\* C30: for each processable text event handle_message calls its
\* collaborators in the order mark-read, classify, (search, generate), send,
\* with exactly one mark-read and at most one send_text_message; a failed
\* mark-read or send is not retried, and the reply is sent whenever there is
\* a response, whether or not the mark-read succeeded
C30_CallOrder ==
    (last.called /\ last.routed) =>
        /\ \E middle \in BetweenClassifyAndSend, tail \in {<<>>, <<"send">>} :
               last.calls = <<"mark_read", "classify">> \o middle \o tail
        /\ TimesCalled(last.calls, "mark_read") = 1
        /\ TimesCalled(last.calls, "send") <= 1
        /\ TimesCalled(last.calls, "send") = (IF Truthy(last.response) THEN 1 ELSE 0)
        /\ last.send_ok => TimesCalled(last.calls, "send") = 1

\* the mark-read failed and the send failed: every call was made once, the
\* reply was attempted
C30_Witness ==
    /\ last.called /\ last.routed
    /\ ~last.mark_ok /\ ~last.send_ok
    /\ last.calls = <<"mark_read", "classify", "search", "generate", "send">>
    /\ ~last.result

====
